---- MODULE Spec2Model ----
(***************************************************************************)
(* Rules engine of sfcc-extras (cartridges/rules_engine): ObjectDiscovery, *)
(* Evaluator, Validator and the RulesEngine facade.                        *)
(*                                                                         *)
(* JavaScript values are tagged records:                                   *)
(*   [k |-> "undef"], [k |-> "null"], [k |-> "bool", b |-> BOOLEAN],       *)
(*   [k |-> "num", n |-> Int], [k |-> "str", s |-> sequence of characters],*)
(*   [k |-> "arr", items |-> sequence of values],                          *)
(*   [k |-> "obj", o |-> function from keys (character sequences) to       *)
(*                       values].                                          *)
(* The outcome of a call is [t |-> "return", v |-> value] or               *)
(* [t |-> "throw", e |-> error kind].                                      *)
(***************************************************************************)
EXTENDS Integers, Sequences, FiniteSets, TLC

VARIABLES
    rules,      \* the engine's rule store (this._rules), fixed at construction
    pc,         \* "idle" between calls, "done" when a call has ended
    call,       \* the call in progress or just ended: operation and arguments
    outcome,    \* what the call returned or threw
    trace,      \* what the call did on the way: evaluator invoked, errors logged
    first       \* the first call of the session and its outcome, once made

vars == <<rules, pc, call, outcome, trace, first>>

---------------------------------------------------------------------------
(* JavaScript values *)

Undef == [k |-> "undef"]
Null == [k |-> "null"]
Bool(b) == [k |-> "bool", b |-> b]
Num(n) == [k |-> "num", n |-> n]
Str(s) == [k |-> "str", s |-> s]
Arr(items) == [k |-> "arr", items |-> items]
Obj(o) == [k |-> "obj", o |-> o]

Return(v) == [t |-> "return", v |-> v]
Throw(e) == [t |-> "throw", e |-> e]

\* const x = value; body(x): the value is computed once, then used.
Bind(value, body(_)) == CHOOSE y \in {body(x) : x \in {value}} : TRUE

\* Characters in code-unit order (the part of ASCII the model's strings use).
CharOrder ==
    << " ", "(", ",", "-", ".", "0", "1", "2", "3", "4", "5", "6", "7", "8", "9",
       "O", "[", "]", "a", "b", "c", "d", "e", "f", "g", "h", "i", "j", "k",
       "l", "m", "n", "o", "p", "q", "r", "s", "t", "u", "v", "w", "x", "y",
       "z" >>

CharCode(c) == CHOOSE i \in 1..Len(CharOrder) : CharOrder[i] = c

Digits == <<"0", "1", "2", "3", "4", "5", "6", "7", "8", "9">>

IsDigit(c) == \E i \in 1..Len(Digits) : Digits[i] = c

DigitValue(c) == (CHOOSE i \in 1..Len(Digits) : Digits[i] = c) - 1

\* Property names and operator names, as character sequences.
K_any == <<"a", "n", "y">>
K_all == <<"a", "l", "l">>
K_none == <<"n", "o", "n", "e">>
K_result == <<"r", "e", "s", "u", "l", "t">>
K_field == <<"f", "i", "e", "l", "d">>
K_operator == <<"o", "p", "e", "r", "a", "t", "o", "r">>
K_value == <<"v", "a", "l", "u", "e">>
K_conditions == <<"c", "o", "n", "d", "i", "t", "i", "o", "n", "s">>
K_length == <<"l", "e", "n", "g", "t", "h">>

W_does == <<"d", "o", "e", "s">>
W_not == <<"n", "o", "t">>
W_than == <<"t", "h", "a", "n">>
W_or == <<"o", "r">>
W_equal == <<"e", "q", "u", "a", "l">>
W_greater == <<"g", "r", "e", "a", "t", "e", "r">>
W_less == <<"l", "e", "s", "s">>
W_contains == <<"c", "o", "n", "t", "a", "i", "n", "s">>
SP == <<" ">>

OP_equals == W_equal \o <<"s">>
OP_does_not_equal == W_does \o SP \o W_not \o SP \o W_equal
OP_greater_than == W_greater \o SP \o W_than
OP_less_than == W_less \o SP \o W_than
OP_greater_than_or_equal == OP_greater_than \o SP \o W_or \o SP \o W_equal
OP_less_than_or_equal == OP_less_than \o SP \o W_or \o SP \o W_equal
OP_exists == <<"e", "x", "i", "s", "t", "s">>
OP_does_not_exist == W_does \o SP \o W_not \o SP \o <<"e", "x", "i", "s", "t">>
OP_in == <<"i", "n">>
OP_not_in == W_not \o SP \o OP_in
OP_contains == W_contains
OP_not_contains == W_not \o SP \o W_contains
OP_contains_any == W_contains \o SP \o K_any
OP_not_contains_any == W_not \o SP \o OP_contains_any
OP_matches == <<"m", "a", "t", "c", "h", "e", "s">>
OP_does_not_match == W_does \o SP \o W_not \o SP \o <<"m", "a", "t", "c", "h">>

---------------------------------------------------------------------------
(* The language's own operations on values, as the engine's code uses them *)

IsPrimitive(v) == v.k \in {"undef", "null", "bool", "num", "str"}

\* a === b; Array.prototype.includes compares the same way on these values.
\* Two arrays or objects are the same only if they are one object: a value
\* of the rule and a value of the criteria never are.
StrictEquals(a, b) == IsPrimitive(a) /\ IsPrimitive(b) /\ a = b

Truthy(v) ==
    CASE v.k = "undef" -> FALSE
      [] v.k = "null" -> FALSE
      [] v.k = "bool" -> v.b
      [] v.k = "num" -> v.n # 0
      [] v.k = "str" -> Len(v.s) > 0
      [] OTHER -> TRUE

RECURSIVE NatToChars(_)
NatToChars(n) ==
    IF n < 10 THEN <<Digits[n + 1]>>
    ELSE NatToChars(n \div 10) \o <<Digits[(n % 10) + 1]>>

IntToChars(n) == IF n < 0 THEN <<"-">> \o NatToChars(0 - n) ELSE NatToChars(n)

RECURSIVE ToChars(_)
RECURSIVE JoinItems(_, _)
\* Array.prototype.join(','): null and undefined elements give the empty string.
JoinItems(items, i) ==
    IF i > Len(items) THEN <<>>
    ELSE LET x == items[i]
             part == IF x.k \in {"undef", "null"} THEN <<>> ELSE ToChars(x)
         IN  (IF i > 1 THEN <<",">> ELSE <<>>) \o part \o JoinItems(items, i + 1)

\* String(v), as template literals and RegExp do it.
ToChars(v) ==
    CASE v.k = "undef" -> <<"u", "n", "d", "e", "f", "i", "n", "e", "d">>
      [] v.k = "null" -> <<"n", "u", "l", "l">>
      [] v.k = "bool" -> IF v.b THEN <<"t", "r", "u", "e">>
                         ELSE <<"f", "a", "l", "s", "e">>
      [] v.k = "num" -> IntToChars(v.n)
      [] v.k = "str" -> v.s
      [] v.k = "arr" -> JoinItems(v.items, 1)
      [] OTHER -> <<"[", "o", "b", "j", "e", "c", "t", " ", "O", "b", "j", "e", "c", "t", "]">>

RECURSIVE DigitsToNat(_, _)
DigitsToNat(s, acc) ==
    IF s = <<>> THEN acc ELSE DigitsToNat(Tail(s), 10 * acc + DigitValue(Head(s)))

NaN == [nan |-> TRUE, n |-> 0]
Number(n) == [nan |-> FALSE, n |-> n]

\* Number(string) for the strings of the model: the empty string is 0, a
\* string of decimal digits is its value, every other string is NaN.
CharsToNumber(s) ==
    IF \A i \in 1..Len(s) : IsDigit(s[i]) THEN Number(DigitsToNat(s, 0)) ELSE NaN

\* ToPrimitive: arrays and objects become their string.
ToPrimitive(v) == IF IsPrimitive(v) THEN v ELSE Str(ToChars(v))

ToNumber(p) ==
    CASE p.k = "undef" -> NaN
      [] p.k = "null" -> Number(0)
      [] p.k = "bool" -> Number(IF p.b THEN 1 ELSE 0)
      [] p.k = "num" -> Number(p.n)
      [] OTHER -> CharsToNumber(p.s)

RECURSIVE CharsLess(_, _)
CharsLess(s, t) ==
    IF t = <<>> THEN FALSE
    ELSE IF s = <<>> THEN TRUE
    ELSE IF Head(s) = Head(t) THEN CharsLess(Tail(s), Tail(t))
    ELSE CharCode(Head(s)) < CharCode(Head(t))

\* The abstract relational comparison a < b: "true", "false" or "undefined".
Compare(a, b) ==
    LET pa == ToPrimitive(a)
        pb == ToPrimitive(b)
    IN  IF pa.k = "str" /\ pb.k = "str"
        THEN (IF CharsLess(pa.s, pb.s) THEN "true" ELSE "false")
        ELSE LET na == ToNumber(pa)
                 nb == ToNumber(pb)
             IN  IF na.nan \/ nb.nan THEN "undefined"
                 ELSE IF na.n < nb.n THEN "true" ELSE "false"

LessThan(a, b) == Compare(a, b) = "true"
GreaterThan(a, b) == Compare(b, a) = "true"
LessThanOrEqual(a, b) == Compare(b, a) = "false"
GreaterThanOrEqual(a, b) == Compare(a, b) = "false"

\* 'key' in obj, for an object.
HasKey(obj, key) == key \in DOMAIN obj.o

\* obj[key] for a value that is not null or undefined.
Get(v, key) ==
    CASE v.k = "obj" -> IF key \in DOMAIN v.o THEN v.o[key] ELSE Undef
      [] v.k = "arr" ->
            IF key = K_length THEN Num(Len(v.items))
            ELSE IF key # <<>> /\ (\A i \in 1..Len(key) : IsDigit(key[i]))
                    /\ (Len(key) = 1 \/ key[1] # "0")
                    /\ DigitsToNat(key, 0) < Len(v.items)
                 THEN v.items[DigitsToNat(key, 0) + 1]
                 ELSE Undef
      [] v.k = "str" ->
            IF key = K_length THEN Num(Len(v.s))
            ELSE IF key # <<>> /\ (\A i \in 1..Len(key) : IsDigit(key[i]))
                    /\ (Len(key) = 1 \/ key[1] # "0")
                    /\ DigitsToNat(key, 0) < Len(v.s)
                 THEN Str(<<v.s[DigitsToNat(key, 0) + 1]>>)
                 ELSE Undef
      [] OTHER -> Undef

\* Array.prototype.includes
ArrayIncludes(items, x) == \E i \in 1..Len(items) : StrictEquals(items[i], x)

\* String.prototype.includes(x): x is converted to a string first.
IsSubstring(t, s) ==
    \E i \in 0..(Len(s) - Len(t)) : \A j \in 1..Len(t) : s[i + j] = t[j]

\* path.split('.')
RECURSIVE Split(_, _)
Split(s, cur) ==
    IF s = <<>> THEN <<cur>>
    ELSE IF Head(s) = "." THEN <<cur>> \o Split(Tail(s), <<>>)
    ELSE Split(Tail(s), Append(cur, Head(s)))

\* new RegExp(source): the patterns of the model are made of literal
\* characters, '.' and '('; no pattern holds ')', so a '(' never closes and
\* the pattern does not compile (SyntaxError).
RegExpLiterals ==
    {CharOrder[i] : i \in 1..Len(CharOrder)} \ {"(", "[", "]", "."}

RegExpSupported(p) == \A i \in 1..Len(p) : p[i] \in RegExpLiterals \cup {".", "("}

RegExpCompiles(p) == \A i \in 1..Len(p) : p[i] # "("

\* The pattern source of new RegExp(v): undefined gives the empty pattern.
RegExpSource(v) == IF v.k = "undef" THEN <<>> ELSE ToChars(v)

\* new RegExp(p).test(s), for a pattern that compiles: an unanchored search.
RegExpTest(p, s) ==
    \E i \in 0..(Len(s) - Len(p)) :
        \A j \in 1..Len(p) : p[j] = "." \/ s[i + j] = p[j]

\* The platform's empty(): absent, null, empty string, empty sequence or
\* record; not the number 0 and not false.
empty(v) ==
    CASE v.k \in {"undef", "null"} -> TRUE
      [] v.k = "str" -> v.s = <<>>
      [] v.k = "arr" -> v.items = <<>>
      [] v.k = "obj" -> DOMAIN v.o = {}
      [] OTHER -> FALSE

---------------------------------------------------------------------------
(* ObjectDiscovery *)

\* conditionType(condition): "null" stands for the null it returns. The in
\* operator throws a TypeError on a value that is not an object.
conditionType(condition) ==
    IF condition.k \notin {"obj", "arr"} THEN Throw("TypeError")
    ELSE IF condition.k = "arr" THEN Return("null")
    ELSE IF HasKey(condition, K_any) THEN Return("any")
    ELSE IF HasKey(condition, K_all) THEN Return("all")
    ELSE IF HasKey(condition, K_none) THEN Return("none")
    ELSE Return("null")

isObject(obj) == obj.k = "obj"

isCondition(obj) ==
    IF ~isObject(obj) THEN FALSE
    ELSE HasKey(obj, K_any) \/ HasKey(obj, K_all) \/ HasKey(obj, K_none)

isConstraint(obj) ==
    IF ~isObject(obj) THEN FALSE
    ELSE HasKey(obj, K_field) /\ HasKey(obj, K_operator) /\ HasKey(obj, K_value)

\* prev[curr]: reading a property of null or undefined is a TypeError.
Read(prev, curr) ==
    IF prev.k \in {"undef", "null"} THEN Throw("TypeError")
    ELSE Return(Get(prev, curr))

RECURSIVE reduceSegments(_, _, _)
\* reduce((prev, curr) => prev ? prev[curr] : undefined, obj)
reduceSegments(segments, i, prev) ==
    IF i > Len(segments) THEN Return(prev)
    ELSE Bind(IF Truthy(prev) THEN Read(prev, segments[i]) ELSE Return(Undef),
              LAMBDA next :
                IF next.t = "throw" THEN next
                ELSE reduceSegments(segments, i + 1, next.v))

\* resolveNestedProperty(path, obj), path a string
resolveNestedProperty(path, obj) == reduceSegments(Split(path, <<>>), 1, obj)

---------------------------------------------------------------------------
(* Evaluator._checkConstraint *)

BranchKey(type) ==
    CASE type = "any" -> K_any
      [] type = "all" -> K_all
      [] OTHER -> K_none

\* constraint.field.includes('.') ? resolveNestedProperty(...) : criteria[field]
\* The outcome is the criterion, or the TypeError of a field that has no
\* includes method, of a path that has no split method, or of a property
\* read on a criteria that is null or undefined.
criterionOf(constraint, criteria) ==
    LET field == Get(constraint, K_field)
    IN  CASE field.k = "str" ->
                IF IsSubstring(<<".">>, field.s)
                THEN resolveNestedProperty(field.s, criteria)
                ELSE IF criteria.k \in {"undef", "null"} THEN Throw("TypeError")
                ELSE Return(Get(criteria, field.s))
          [] field.k = "arr" ->
                IF ArrayIncludes(field.items, Str(<<".">>)) THEN Throw("TypeError")
                ELSE IF criteria.k \in {"undef", "null"} THEN Throw("TypeError")
                ELSE Return(Get(criteria, ToChars(field)))
          [] OTHER -> Throw("TypeError")

\* criterion.includes(x): arrays and strings have the method.
HasIncludes(criterion) == criterion.k \in {"arr", "str"}

includes(criterion, x) ==
    IF criterion.k = "arr" THEN ArrayIncludes(criterion.items, x)
    ELSE IsSubstring(ToChars(x), criterion.s)

someIncludedEvery(value, criterion) ==
    IF value.items = <<>> THEN Return(Bool(TRUE))
    ELSE IF ~HasIncludes(criterion) THEN Throw("TypeError")
    ELSE Return(Bool(\A i \in 1..Len(value.items) : includes(criterion, value.items[i])))

\* constraint.value.some((x) => criterion.includes(x))
someIncluded(value, criterion) ==
    IF value.items = <<>> THEN Return(Bool(FALSE))
    ELSE IF ~HasIncludes(criterion) THEN Throw("TypeError")
    ELSE Return(Bool(\E i \in 1..Len(value.items) : includes(criterion, value.items[i])))

\* new RegExp(criterion).test(`${constraint.value}`)
regExpTest(criterion, value) ==
    IF ~RegExpCompiles(RegExpSource(criterion)) THEN Throw("SyntaxError")
    ELSE Return(Bool(RegExpTest(RegExpSource(criterion), ToChars(value))))

Not(r) == IF r.t = "throw" THEN r ELSE Return(Bool(~r.v.b))

\* The switch over constraint.operator, for a criterion that is not undefined.
checkOperator(operator, criterion, value) ==
    LET op == IF operator.k = "str" THEN operator.s ELSE <<>>
    IN  CASE op = OP_equals -> Return(Bool(StrictEquals(criterion, value)))
          [] op = OP_does_not_equal -> Return(Bool(~StrictEquals(criterion, value)))
          [] op = OP_greater_than -> Return(Bool(GreaterThan(criterion, value)))
          [] op = OP_greater_than_or_equal -> Return(Bool(GreaterThanOrEqual(criterion, value)))
          [] op = OP_less_than -> Return(Bool(LessThan(criterion, value)))
          [] op = OP_less_than_or_equal -> Return(Bool(LessThanOrEqual(criterion, value)))
          [] op = OP_exists -> Return(Bool(~empty(criterion)))
          [] op = OP_does_not_exist -> Return(Bool(empty(criterion)))
          [] op = OP_in ->
                Return(Bool(value.k = "arr" /\ ArrayIncludes(value.items, criterion)))
          [] op = OP_not_in ->
                Return(Bool(value.k # "arr" \/ ~ArrayIncludes(value.items, criterion)))
          [] op = OP_contains ->
                Return(Bool(criterion.k = "arr" /\ ArrayIncludes(criterion.items, value)))
          [] op = OP_not_contains ->
                Return(Bool(criterion.k # "arr" \/ ~ArrayIncludes(criterion.items, value)))
          [] op = OP_contains_any ->
                IF value.k # "arr" THEN Return(Bool(FALSE))
                ELSE someIncluded(value, criterion)
          [] op = OP_not_contains_any ->
                IF value.k # "arr" THEN Return(Bool(TRUE))
                ELSE Not(someIncluded(value, criterion))
          [] op = OP_matches -> regExpTest(criterion, value)
          [] op = OP_does_not_match -> Not(regExpTest(criterion, value))
          [] OTHER -> Return(Bool(FALSE))

_checkConstraint(constraint, criteria) ==
    LET criterion == criterionOf(constraint, criteria)
    IN  IF criterion.t = "throw" THEN criterion
        ELSE IF criterion.v = Undef THEN Return(Bool(FALSE))
        ELSE checkOperator(Get(constraint, K_operator), criterion.v,
                           Get(constraint, K_value))

---------------------------------------------------------------------------
(* The rule store and Evaluator *)

\* Depth of nested calls at which the runtime's call stack is exhausted
\* (a RangeError); the real limit is in the thousands.
StackLimit == 4

\* JSON.parse(text): the text of a stored rule either parses to the tree it
\* denotes or is malformed (SyntaxError).
JSONParse(text) == IF text.parses THEN Return(text.tree) ELSE Throw("SyntaxError")

\* [].find.call(this._rules, (r) => r.custom.id === id): the first match.
findRule(store, id) ==
    IF \E i \in 1..Len(store) : store[i].id = id
    THEN Return(store[CHOOSE i \in 1..Len(store) :
                        /\ store[i].id = id
                        /\ \A j \in 1..(i - 1) : store[j].id # id])
    ELSE Return(Undef)

\* The store after a call: the methods only read this._rules.
rulesAfterShift(store) == IF store = <<>> THEN store ELSE Tail(store)
rulesAfter(store) == store

\* Evaluator._getById and Validator._getById (the same code)
_getByIdUnchecked(store, id) ==
    Bind(findRule(store, id).v, LAMBDA rule :
        IF rule = Undef THEN Return(Undef) ELSE JSONParse(rule.conditions))
_getById(store, id) ==
    Bind(findRule(store, id).v, LAMBDA rule :
        IF rule = Undef THEN Throw("Invalid rule reference")
        ELSE JSONParse(rule.conditions))

\* if (typeof node === 'string') node = this._getById(node)
resolveNothing(store, node) == Return(node)
resolve(store, node) ==
    IF node.k = "str" THEN _getById(store, node.s) ELSE Return(node)

\* An evaluation's outcome also tells whether 'Invalid node type in
\* condition' was logged on the way.
ReturnL(v, log) == [t |-> "return", v |-> v, e |-> "", log |-> log]
ThrowL(e, log) == [t |-> "throw", v |-> Undef, e |-> e, log |-> log]
Plain(r) == IF r.t = "return" THEN ReturnL(r.v, FALSE) ELSE ThrowL(r.e, FALSE)

\* for (let node of branch): an array gives its elements, a string its
\* characters, anything else is not iterable (TypeError).
iterate(branch) ==
    CASE branch.k = "arr" -> Return(branch.items)
      [] branch.k = "str" -> Return([i \in 1..Len(branch.s) |-> Str(<<branch.s[i]>>)])
      [] OTHER -> Throw("TypeError")

\* let result = ['all', 'none'].includes(type)
seedAllOnly(type) == type = "all"
seed(type) == type \in {"all", "none"}

\* What the node's value f() contributes: result || f(), result && f(),
\* result && !f().
combineNoNegation(type, value) == value
combine(type, value) == IF type = "none" THEN ~value ELSE value

RECURSIVE _evaluateCondition(_, _, _, _)
RECURSIVE evaluateNodes(_, _, _, _, _, _, _, _)

\* The loop of _evaluateCondition from its i-th node on, with the result and
\* the log so far. result || f(), result && f() and result && !f() call f
\* only when the left side does not decide.
evaluateNodes(store, type, nodes, i, result, log, criteria, depth) ==
    IF i > Len(nodes) THEN ReturnL(Bool(result), log)
    ELSE Bind(resolve(store, nodes[i]), LAMBDA got :
      IF got.t = "throw" THEN ThrowL(got.e, log)
      ELSE
        LET node == got.v
            fn == IF isCondition(node) THEN "_evaluateCondition"
                  ELSE IF isConstraint(node) THEN "_checkConstraint"
                  ELSE "undefined"
            decided == IF type = "any" THEN result ELSE ~result
        IN  IF fn = "undefined" THEN ReturnL(Bool(FALSE), TRUE)
            ELSE IF decided
            THEN evaluateNodes(store, type, nodes, i + 1, result, log, criteria, depth)
            ELSE Bind(IF fn = "_evaluateCondition"
                      THEN _evaluateCondition(store, node, criteria, depth + 1)
                      ELSE Plain(_checkConstraint(node, criteria)), LAMBDA r :
                   IF r.t = "throw" THEN ThrowL(r.e, log \/ r.log)
                   ELSE evaluateNodes(store, type, nodes, i + 1, combine(type, r.v.b),
                                      log \/ r.log, criteria, depth)))

_evaluateCondition(store, condition, criteria, depth) ==
    IF depth > StackLimit THEN ThrowL("RangeError", FALSE)
    ELSE Bind(conditionType(condition), LAMBDA type :
      IF type.t = "throw" THEN ThrowL(type.e, FALSE)
      ELSE IF type.v = "null" THEN ReturnL(Bool(FALSE), FALSE)
      ELSE Bind(iterate(Get(condition, BranchKey(type.v))), LAMBDA nodes :
             IF nodes.t = "throw" THEN ThrowL(nodes.e, FALSE)
             ELSE evaluateNodes(store, type.v, nodes.v, 1, seed(type.v), FALSE,
                                criteria, depth)))

\* typeof condition.result === 'boolean' ? condition.result : true
resultAlwaysTrue(condition) == Bool(TRUE)
resultOf(condition) ==
    IF Get(condition, K_result).k = "bool" THEN Get(condition, K_result) ELSE Bool(TRUE)

RECURSIVE _evaluateRuleFrom(_, _, _, _, _)
\* The loop of _evaluateRule from its i-th condition on.
_evaluateRuleFrom(store, conditions, i, log, criteria) ==
    IF i > Len(conditions) THEN ReturnL(Bool(FALSE), log)
    ELSE Bind(_evaluateCondition(store, conditions[i], criteria, 1), LAMBDA result :
           IF result.t = "throw" THEN ThrowL(result.e, log \/ result.log)
           ELSE IF result.v.b
           THEN ReturnL(resultOf(conditions[i]), log \/ result.log)
           ELSE _evaluateRuleFrom(store, conditions, i + 1, log \/ result.log, criteria))

_evaluateRule(store, conditions, criteria) ==
    _evaluateRuleFrom(store, conditions, 1, FALSE, criteria)

\* rule.conditions instanceof Array ? rule.conditions : [rule.conditions]
conditionsOf(rule) ==
    IF Get(rule, K_conditions).k = "arr" THEN Get(rule, K_conditions).items
    ELSE <<Get(rule, K_conditions)>>

\* result.push(x)
pushFront(result, x) == <<x>> \o result
push(result, x) == Append(result, x)

RECURSIVE evaluateEach(_, _, _, _, _, _)
\* The loop over a sequence of criteria: results are pushed in order; an
\* error in one element ends the whole call.
evaluateEach(store, conditions, criteria, i, acc, log) ==
    IF i > Len(criteria) THEN ReturnL(Arr(acc), log)
    ELSE Bind(_evaluateRule(store, conditions, criteria[i]), LAMBDA r :
           IF r.t = "throw" THEN ThrowL(r.e, log \/ r.log)
           ELSE evaluateEach(store, conditions, criteria, i + 1, push(acc, r.v),
                             log \/ r.log))

\* Evaluator.evaluate(rule, criteria); reading rule.conditions of a rule that
\* is null or undefined is a TypeError.
evaluate(store, rule, criteria) ==
    IF rule.k \in {"undef", "null"} THEN ThrowL("TypeError", FALSE)
    ELSE IF criteria.k = "arr"
    THEN evaluateEach(store, conditionsOf(rule), criteria.items, 1, <<>>, FALSE)
    ELSE _evaluateRule(store, conditionsOf(rule), criteria)

---------------------------------------------------------------------------
(* Validator *)

\* A ValidationResult: {isValid: true}, or isValid false with the error's
\* message and offending element.
Valid == [isValid |-> TRUE, error |-> Undef]
Invalid(message, element) ==
    [isValid |-> FALSE, error |-> [message |-> message, element |-> element]]

\* result.isValid = result.isValid && subResult.isValid;
\* result.error = result.error ? result.error : subResult.error
mergeLast(result, subResult) ==
    [isValid |-> result.isValid /\ subResult.isValid,
     error |-> IF subResult.error # Undef THEN subResult.error ELSE result.error]
merge(result, subResult) ==
    [isValid |-> result.isValid /\ subResult.isValid,
     error |-> IF result.error # Undef THEN result.error ELSE subResult.error]

operators ==
    << OP_equals, OP_does_not_equal, OP_greater_than, OP_less_than,
       OP_greater_than_or_equal, OP_less_than_or_equal, OP_exists,
       OP_does_not_exist, OP_in, OP_not_in, OP_contains, OP_not_contains,
       OP_contains_any, OP_not_contains_any, OP_matches, OP_does_not_match >>

\* list.includes(x), for a list of strings
includesAnything(list, x) == TRUE
includesOperator(list, x) ==
    x.k = "str" /\ \E i \in 1..Len(list) : list[i] = x.s

_validateConstraint(constraint) ==
    LET field == Get(constraint, K_field)
        operator == Get(constraint, K_operator)
        value == Get(constraint, K_value)
    IN  IF field.k # "str"
        THEN Invalid("Constraint \"field\" must be of type string.", constraint)
        ELSE IF ~includesOperator(operators, operator)
        THEN Invalid("Constraint \"operator\" has invalid type.", constraint)
        ELSE IF /\ includesOperator(<<OP_in, OP_not_in, OP_contains_any,
                                      OP_not_contains_any>>, operator)
                /\ value.k # "arr"
        THEN Invalid("Constraint \"value\" must be an array if the \"operator\" is in [\"in\", \"not in\", \"contains any\", \"not contains any\"]", constraint)
        ELSE IF /\ includesOperator(<<OP_matches, OP_does_not_match>>, operator)
                /\ ~RegExpCompiles(RegExpSource(value))
        THEN Invalid("Constraint \"value\" must be a valid regular expression if the \"operator\" is in [\"matches\", \"not matches\"]", constraint)
        ELSE Valid

_isValidConditionAnyKeys(obj) ==
    IF ~isCondition(obj) THEN Invalid("Invalid condition structure.", obj) ELSE Valid
_isValidCondition(obj) ==
    IF ~isCondition(obj) THEN Invalid("Invalid condition structure.", obj)
    ELSE
      LET isAny == HasKey(obj, K_any)
          isAll == HasKey(obj, K_all)
          isNone == HasKey(obj, K_none)
      IN  IF (isAny /\ isAll) \/ (isAny /\ isNone) \/ (isAll /\ isNone)
          THEN Invalid("A condition cannot have more than one \"any\", \"all\", or \"none\" property.", obj)
          ELSE Valid

\* if (!isConstraint && !isCondition): the node is neither.
neitherNever(node) == FALSE
neither(node) == ~isConstraint(node) /\ ~isCondition(node)

\* if (!result.isValid) break
breaksNever(result) == FALSE
breaks(result) == ~result.isValid

RECURSIVE _validateCondition(_, _, _)
RECURSIVE validateNodes(_, _, _, _, _, _)

\* The loop of _validateCondition from its i-th node on, with the result so
\* far. The outcome is a returned ValidationResult or a thrown error.
validateNodes(store, condition, nodes, i, result, depth) ==
    IF i > Len(nodes) THEN Return(result)
    ELSE Bind(resolve(store, nodes[i]), LAMBDA got :
      IF got.t = "throw" THEN got
      ELSE Bind(IF isCondition(got.v) THEN _validateCondition(store, got.v, depth + 1)
                ELSE IF isConstraint(got.v) THEN Return(_validateConstraint(got.v))
                ELSE Return(Valid), LAMBDA sub :
             IF sub.t = "throw" THEN sub
             ELSE IF neither(got.v)
             THEN Return(Invalid("Each node should be a condition or constraint.", got.v))
             ELSE IF depth > 0 /\ HasKey(condition, K_result)
             THEN Return(Invalid("Nested conditions cannot have a property \"result\".", got.v))
             ELSE IF breaks(merge(result, sub.v))
             THEN Return(merge(result, sub.v))
             ELSE validateNodes(store, condition, nodes, i + 1, merge(result, sub.v),
                                depth)))

_validateCondition(store, given, depth) ==
    IF depth > StackLimit THEN Throw("RangeError")
    ELSE Bind(resolve(store, given), LAMBDA got :
      IF got.t = "throw" THEN got
      ELSE
        LET condition == got.v
            result == _isValidCondition(condition)
        IN  IF ~result.isValid THEN Return(result)
            ELSE
              LET type == conditionType(condition).v
                  branch == Get(condition, BranchKey(type))
              IN  IF branch.k # "arr"
                  THEN Return(Invalid("The condition '" \o type \o "' should be iterable.", condition))
                  ELSE validateNodes(store, condition, branch.items, 1, result, depth))

RECURSIVE validateEach(_, _, _, _)
\* The loop of validate over the top-level conditions: it has no break.
validateEach(store, conditions, i, result) ==
    IF i > Len(conditions) THEN Return(result)
    ELSE Bind(_validateCondition(store, conditions[i], 0), LAMBDA subResult :
           IF subResult.t = "throw" THEN subResult
           ELSE validateEach(store, conditions, i + 1, merge(result, subResult.v)))

\* Validator.validate(rule)
validate(store, rule) ==
    IF ~isObject(rule)
    THEN Return(Invalid("The rule must be a valid JSON object.", rule))
    ELSE
      LET conditions == conditionsOf(rule)
      IN  IF \/ Len(conditions) = 0
             \/ (isObject(conditions[1]) /\ DOMAIN conditions[1].o = {})
          THEN Return(Invalid("The conditions property must contain at least one condition.", rule))
          ELSE validateEach(store, conditions, 1, Valid)

---------------------------------------------------------------------------
(* RulesEngine *)

\* What a call of the engine did: its outcome, whether it invoked the
\* Evaluator, and what it wrote to the error log.
Did(out, evaluated, logs) == [out |-> out, evaluated |-> evaluated, logs |-> logs]

InvalidNodeLog(r) == IF r.log THEN {"Invalid node type in condition"} ELSE {}

Outcome(r) == IF r.t = "throw" THEN Throw(r.e) ELSE Return(r.v)

\* this._evaluator.evaluate(rule, criteria), as the last step of a call
evaluated(store, rule, criteria, logs) ==
    Bind(evaluate(store, rule, criteria), LAMBDA r :
        Did(Outcome(r), TRUE, logs \cup InvalidNodeLog(r)))

\* RulesEngine._getById of the permissive revision: an unknown identifier is
\* logged, and reading rule.custom of the undefined rule is a TypeError.
engineGetById(store, id) ==
    Bind(findRule(store, id).v, LAMBDA rule :
        IF rule = Undef THEN Throw("TypeError")
        ELSE Bind(JSONParse(rule.conditions), LAMBDA parsed :
               IF parsed.t = "throw" THEN parsed
               ELSE Return(Obj((<<"i", "d">> :> Str(id)) @@ (K_conditions :> parsed.v)))))

\* if (typeof rule === 'string') rule = this._getById(rule)
engineResolve(store, rule) ==
    IF rule.k = "str" THEN engineGetById(store, rule.s) ELSE Return(rule)

engineResolveLogs(store, rule) ==
    IF rule.k = "str" /\ findRule(store, rule.s).v = Undef
    THEN {"Invalid rule reference"} ELSE {}

\* RulesEngine.validate of the revisions that throw: the Validator's answer.
engineValidateStrict(store, rule) == Did(validate(store, rule), FALSE, {})

\* RulesEngine.evaluate of the revisions that throw
engineEvaluateSkipsValidation(store, rule, criteria) ==
    evaluated(store, rule, criteria, {})
engineEvaluateStrict(store, rule, criteria) ==
    Bind(validate(store, rule), LAMBDA validationResult :
        IF validationResult.t = "throw" THEN Did(validationResult, FALSE, {})
        ELSE IF ~validationResult.v.isValid
        THEN Did(Throw("Rule is not valid"), FALSE, {})
        ELSE evaluated(store, rule, criteria, {}))

\* RulesEngine.validate of the permissive revision: a string is resolved first.
engineValidatePermissive(store, given) ==
    Bind(engineResolve(store, given), LAMBDA got :
        IF got.t = "throw" THEN Did(got, FALSE, engineResolveLogs(store, given))
        ELSE Did(validate(store, got.v), FALSE, engineResolveLogs(store, given)))

\* RulesEngine.evaluate of the permissive revision
engineEvaluatePermissive(store, given, criteria) ==
    Bind(engineResolve(store, given), LAMBDA got :
        IF got.t = "throw" THEN Did(got, FALSE, engineResolveLogs(store, given))
        ELSE Bind(engineValidatePermissive(store, got.v).out, LAMBDA validationResult :
               IF validationResult.t = "throw"
               THEN Did(validationResult, FALSE, engineResolveLogs(store, given))
               ELSE IF ~validationResult.v.isValid
               THEN Did(Return(Bool(FALSE)), FALSE,
                        engineResolveLogs(store, given) \cup {"Rule is not valid"})
               ELSE evaluated(store, got.v, criteria, engineResolveLogs(store, given))))

---------------------------------------------------------------------------
(* Inputs: the rules, conditions, constraints and criteria the calls draw *)

MaxNodes == 2       \* longest any/all/none branch drawn
MaxConditions == 2  \* longest top-level conditions sequence drawn
MaxCriteria == 2    \* longest sequence of criteria records drawn

SeqsUpTo(S, n) == UNION {[1..m -> S] : m \in 0..n}

Constraint(field, operator, value) ==
    Obj((K_field :> field) @@ (K_operator :> operator) @@ (K_value :> value))
Condition(type, nodes) == Obj(BranchKey(type) :> Arr(nodes))
WithResult(condition, result) == Obj(condition.o @@ (K_result :> result))
Rule(conditions) == Obj(K_conditions :> conditions)
Record1(k1, v1) == Obj(k1 :> v1)

F_a == <<"a">>
F_n == <<"n">>
F_tags == <<"t", "a", "g", "s">>
F_pat == <<"p", "a", "t">>
F_p == <<"p">>
F_q == <<"q">>
F_zz == <<"z", "z">>
F_p_a == <<"p", ".", "a">>
F_p_q_a == <<"p", ".", "q", ".", "a">>
F_p_zz == <<"p", ".", "z", "z">>
F_tags_0 == <<"t", "a", "g", "s", ".", "0">>

S_a == Str(<<"a">>)
S_b == Str(<<"b">>)
S_x == Str(<<"x">>)
S_y == Str(<<"y">>)

Types == {"any", "all", "none"}

\* Criteria records.
Criteria1 ==
    Obj((F_a :> Num(1)) @@ (F_n :> Num(2)) @@ (F_tags :> Arr(<<S_x, S_b>>))
        @@ (F_pat :> S_a)
        @@ (F_p :> Obj((F_a :> Num(1)) @@ (F_q :> Record1(F_a, S_x)))))
Criteria2 ==
    Obj((F_a :> S_a) @@ (F_n :> Num(0)) @@ (F_tags :> Arr(<<S_x, S_y>>))
        @@ (F_pat :> Str(<<"(">>)) @@ (F_p :> Record1(F_a, Null)))
Criteria3 ==
    Obj((F_a :> Null) @@ (F_tags :> Num(5)) @@ (F_pat :> Num(5)) @@ (F_p :> Num(0)))
Criteria4 == Obj(<<>>)
Criteria5 ==
    Obj((F_a :> Arr(<<Num(1)>>)) @@ (F_n :> Bool(FALSE))
        @@ (F_tags :> Str(<<"x", "b">>)) @@ (F_p :> Record1(F_q, Num(0)))
        @@ (F_p_a :> Num(1)))
Criteria6 ==
    Obj((F_a :> Str(<<>>)) @@ (F_n :> Num(1)) @@ (F_tags :> Arr(<<>>))
        @@ (F_pat :> Str(<<"x", ".">>)))

CriteriaRecords == {Criteria1, Criteria2, Criteria3, Criteria4, Criteria5, Criteria6}

\* Constraints for the calls of _checkConstraint.
ConstraintFields ==
    {Str(F_a), Str(F_n), Str(F_tags), Str(F_pat), Str(F_p_a), Str(F_p_q_a),
     Str(F_zz), Str(F_p_zz), Str(F_tags_0), Num(1)}
ConstraintOperators ==
    {Str(operators[i]) : i \in 1..Len(operators)} \cup {Str(<<"i", "s">>), Num(1)}
ConstraintValues ==
    {Num(1), Num(2), S_a, S_x, Bool(TRUE), Null, Arr(<<>>), Arr(<<S_a, S_b>>),
     Arr(<<Num(1), S_x>>), Arr(<<Arr(<<Num(1)>>), S_b>>), Str(<<"(">>)}

Constraints ==
    {Constraint(f, op, v) : f \in ConstraintFields, op \in ConstraintOperators,
                            v \in ConstraintValues}

\* The stored rules. The second rule named r1 is never found.
T_r1 == <<"r", "1">>
T_r2 == <<"r", "2">>
T_cy == <<"c", "y">>
T_ar == <<"a", "r">>
T_bad == <<"b", "a", "d">>

A_is_1 == Constraint(Str(F_a), Str(OP_equals), Num(1))
N_gt_1 == Constraint(Str(F_n), Str(OP_greater_than), Num(1))
Tags_any == Constraint(Str(F_tags), Str(OP_contains_any), Arr(<<S_a, S_b>>))
Zz_absent == Constraint(Str(F_zz), Str(OP_does_not_exist), Null)
P_a_exists == Constraint(Str(F_p_a), Str(OP_exists), Null)
Pat_matches == Constraint(Str(F_pat), Str(OP_matches), S_a)
A_in == Constraint(Str(F_a), Str(OP_in), Arr(<<Num(1), S_x>>))

Stored(id, tree) == [id |-> id, conditions |-> [parses |-> TRUE, tree |-> tree]]
Malformed(id) == [id |-> id, conditions |-> [parses |-> FALSE, tree |-> Undef]]

MainStore ==
    << Stored(T_r1, Condition("all", <<A_is_1>>)),
       Stored(T_r2, WithResult(Condition("any", <<N_gt_1>>), Bool(FALSE))),
       Stored(T_cy, Condition("all", <<A_is_1, Str(T_cy)>>)),
       Stored(T_ar, Arr(<<Condition("all", <<A_is_1>>)>>)),
       Malformed(T_bad),
       Stored(T_r1, Condition("none", <<A_is_1>>)) >>

Stores == {MainStore, <<>>}

T_zz == <<"z", "z">>

\* Nested conditions and the nodes a drawn branch is made of.
InnerConditions ==
    { Condition("any", <<A_is_1, N_gt_1>>),
      Condition("none", <<Tags_any>>),
      Condition("all", <<P_a_exists, Condition("none", <<Zz_absent>>)>>),
      Condition("all", <<>>) }

EvaluatedNodes ==
    {A_is_1, N_gt_1, Tags_any, Zz_absent, Pat_matches, A_in}
        \cup InnerConditions
        \cup {Str(T_r1), Str(T_zz), Str(T_cy), Num(5)}

EvaluatedConditions ==
    {Condition(type, nodes) : type \in Types, nodes \in SeqsUpTo(EvaluatedNodes, MaxNodes)}

\* Top-level conditions for the calls of Evaluator.evaluate.
TopConditions ==
    { WithResult(Condition("all", <<A_is_1>>), Bool(FALSE)),
      Condition("all", <<A_is_1>>),
      WithResult(Condition("any", <<N_gt_1, A_in>>), S_x),
      WithResult(Condition("all", <<Tags_any>>), Bool(TRUE)),
      WithResult(Condition("none", <<A_is_1>>), Bool(FALSE)),
      WithResult(Condition("all", <<Zz_absent>>), Bool(TRUE)),
      Str(T_r1) }

EvaluatedRules ==
    {Rule(Arr(conditions)) : conditions \in SeqsUpTo(TopConditions, MaxConditions)}
        \cup {Rule(condition) : condition \in TopConditions}

SomeCriteria == {Criteria1, Criteria2, Criteria3}

CriteriaArguments ==
    SomeCriteria \cup {Arr(records) : records \in SeqsUpTo(SomeCriteria, MaxCriteria)}

\* Nodes for the rules given to validate.
BadField == Constraint(Num(1), Str(OP_equals), Num(1))
BadOperator == Constraint(Str(F_a), Str(<<"i", "s">>), Num(1))
BadSetValue == Constraint(Str(F_a), Str(OP_in), Num(1))
BadPattern == Constraint(Str(F_a), Str(OP_matches), Str(<<"(">>))
TwoKeys == Obj((K_any :> Arr(<<A_is_1>>)) @@ (K_all :> Arr(<<Str(T_zz)>>)))
NotIterable == Obj(K_all :> Num(1))

ValidatedNodes ==
    { A_is_1, Pat_matches, BadField, BadOperator, BadSetValue, BadPattern,
      Str(T_r1), Str(T_r2), Str(T_zz), Str(T_cy), Str(T_ar), Str(T_bad),
      Num(5), TwoKeys, NotIterable,
      Condition("all", <<>>),
      WithResult(Condition("all", <<A_is_1>>), Bool(TRUE)),
      WithResult(Condition("all", <<>>), Bool(TRUE)),
      WithResult(Condition("all", <<BadField>>), Bool(TRUE)),
      Condition("any", <<N_gt_1, TwoKeys>>) }

\* Rules of one drawn condition, with and without a result.
DrawnRules ==
    {Rule(IF withResult THEN WithResult(Condition(type, nodes), Bool(FALSE))
          ELSE Condition(type, nodes)) :
        type \in Types, nodes \in SeqsUpTo(ValidatedNodes, MaxNodes),
        withResult \in BOOLEAN}

SomeValidatedConditions ==
    { Condition("all", <<A_is_1>>), Condition("all", <<BadField>>),
      Condition("any", <<Str(T_zz)>>), TwoKeys, Obj(<<>>), Str(T_r2), Str(T_zz) }

\* Rules of other shapes.
GivenRules ==
    {Rule(condition) :
        condition \in {TwoKeys, NotIterable, Obj(<<>>), Str(T_r1), Str(T_r2), Str(T_zz),
                       Undef, WithResult(TwoKeys, Bool(FALSE)),
                       WithResult(NotIterable, Bool(FALSE)), Record1(K_result, Bool(FALSE))}}
        \cup {Rule(Arr(conditions)) :
                conditions \in SeqsUpTo(SomeValidatedConditions, MaxConditions)}
        \cup {Obj(<<>>), Null, Str(T_r1), Str(T_zz), Str(T_bad)}

\* Nodes for the rules given to the engine's evaluate.
EngineNodes ==
    { A_is_1, Tags_any, BadField, Str(T_r1), Str(T_zz), Str(T_cy), Num(5), TwoKeys,
      Condition("any", <<N_gt_1>>),
      Condition("all", <<Str(T_zz)>>),
      WithResult(Condition("all", <<A_is_1>>), Bool(TRUE)) }

DrawnEngineRules ==
    {Rule(Condition(type, nodes)) :
        type \in Types, nodes \in SeqsUpTo(EngineNodes, MaxNodes)}

GivenEngineRules ==
    {Rule(Arr(conditions)) :
        conditions \in SeqsUpTo(SomeValidatedConditions, MaxConditions)}
        \cup {Rule(TwoKeys), Rule(Obj(<<>>)), Obj(<<>>), Str(T_r1), Str(T_zz)}

EngineCriteria == {Criteria1, Criteria3, Arr(<<Criteria1, Criteria2>>)}

\* Paths and records for the calls of resolveNestedProperty.
F_a_length == <<"a", ".", "l", "e", "n", "g", "t", "h">>
F_a_0 == <<"a", ".", "0">>
F_n_a == <<"n", ".", "a">>
F_zz_a == <<"z", "z", ".", "a">>

Paths ==
    {F_a, F_zz, F_p_a, F_p_q_a, F_p_zz, F_tags_0, F_a_length, F_a_0, F_n_a, F_zz_a,
     <<>>, <<".">>, <<"p", ".">>}

PathRecords == CriteriaRecords \cup {Undef, Null, Num(0), S_a, Arr(<<S_a>>)}

---------------------------------------------------------------------------
(* The engine: construction, calls and returns *)

NoCall == [op |-> "none", node |-> Undef, criteria |-> Undef]
NoOutcome == [t |-> "none"]
NoTrace == [evaluated |-> FALSE, logs |-> {}]
NoFirst == [made |-> FALSE]

Call(op, node, criteria) == [op |-> op, node |-> node, criteria |-> criteria]

\* init: the engine reads the stored rules and hands them to its Validator
\* and Evaluator.
Init ==
    /\ rules \in Stores
    /\ pc = "idle"
    /\ call = NoCall
    /\ outcome = NoOutcome
    /\ trace = NoTrace
    /\ first = NoFirst

Ends(op, node, criteria, did) ==
    /\ pc' = "done"
    /\ call' = Call(op, node, criteria)
    /\ outcome' = did.out
    /\ trace' = [evaluated |-> did.evaluated, logs |-> did.logs]
    /\ rules' = rulesAfter(rules)
    /\ UNCHANGED first

CallCheckConstraint ==
    /\ pc = "idle"
    /\ \E constraint \in Constraints, criteria \in CriteriaRecords :
          Ends("_checkConstraint", constraint, criteria,
               Did(_checkConstraint(constraint, criteria), TRUE, {}))

CallEvaluateCondition ==
    /\ pc = "idle"
    /\ \E condition \in EvaluatedConditions, criteria \in CriteriaRecords :
          LET r == _evaluateCondition(rules, condition, criteria, 1)
          IN  Ends("_evaluateCondition", condition, criteria,
                   Did(Outcome(r), TRUE, InvalidNodeLog(r)))

CallEvaluatorEvaluate ==
    /\ pc = "idle"
    /\ \E rule \in EvaluatedRules, criteria \in CriteriaArguments :
          LET r == evaluate(rules, rule, criteria)
          IN  Ends("evaluate", rule, criteria, Did(Outcome(r), TRUE, InvalidNodeLog(r)))

Validates(rule) == Ends("validate", rule, Undef, engineValidateStrict(rules, rule))

CallValidate ==
    /\ pc = "idle"
    /\ \/ \E rule \in DrawnRules : Validates(rule)
       \/ \E rule \in GivenRules : Validates(rule)
       \/ \E constraint \in Constraints, type \in Types :
             Validates(Rule(Condition(type, <<constraint>>)))

ValidatesPermissive(rule) ==
    Ends("validate (permissive)", rule, Undef, engineValidatePermissive(rules, rule))

CallValidatePermissive ==
    /\ pc = "idle"
    /\ \/ \E rule \in DrawnRules : ValidatesPermissive(rule)
       \/ \E rule \in GivenRules : ValidatesPermissive(rule)

EvaluatesStrict(rule, criteria) ==
    Ends("evaluate (strict)", rule, criteria, engineEvaluateStrict(rules, rule, criteria))

CallEvaluateStrict ==
    /\ pc = "idle"
    /\ \/ \E rule \in DrawnEngineRules, criteria \in EngineCriteria :
             EvaluatesStrict(rule, criteria)
       \/ \E rule \in GivenEngineRules, criteria \in EngineCriteria :
             EvaluatesStrict(rule, criteria)

EvaluatesPermissive(rule, criteria) ==
    Ends("evaluate (permissive)", rule, criteria,
         engineEvaluatePermissive(rules, rule, criteria))

CallEvaluatePermissive ==
    /\ pc = "idle"
    /\ \/ \E rule \in DrawnEngineRules, criteria \in EngineCriteria :
             EvaluatesPermissive(rule, criteria)
       \/ \E rule \in GivenEngineRules, criteria \in EngineCriteria :
             EvaluatesPermissive(rule, criteria)

CallResolveNestedProperty ==
    /\ pc = "idle"
    /\ \E path \in Paths, obj \in PathRecords :
          Ends("resolveNestedProperty", Str(path), obj,
               Did(resolveNestedProperty(path, obj), FALSE, {}))

\* The call returns to its caller; the engine keeps nothing of it.
Returns ==
    /\ pc = "done"
    /\ pc' = "idle"
    /\ call' = NoCall
    /\ outcome' = NoOutcome
    /\ trace' = NoTrace
    /\ UNCHANGED <<rules, first>>

Next ==
    \/ CallCheckConstraint
    \/ CallEvaluateCondition
    \/ CallEvaluatorEvaluate
    \/ CallValidate
    \/ CallValidatePermissive
    \/ CallEvaluateStrict
    \/ CallEvaluatePermissive
    \/ CallResolveNestedProperty
    \/ Returns

Spec == Init /\ [][Next]_vars

---------------------------------------------------------------------------
(* A session: calls on one engine instance, the first of them remembered *)

SessionRules ==
    { Rule(Condition("all", <<A_is_1>>)),
      Rule(Condition("any", <<Str(T_r1), N_gt_1>>)),
      Rule(Arr(<<Str(T_r2), Condition("none", <<Tags_any>>)>>)),
      Rule(Condition("all", <<Pat_matches>>)),
      Rule(Condition("all", <<BadField>>)),
      Rule(Condition("all", <<Str(T_zz)>>)),
      Rule(TwoKeys),
      Str(T_r1) }

SessionCriteria == {Criteria1, Criteria2, Arr(<<Criteria1, Criteria2>>)}

\* The call ends as in Ends; the first call of the session is remembered
\* with the store it found, and whether it was made again since.
SessionEnds(op, node, criteria, did) ==
    /\ pc' = "done"
    /\ call' = Call(op, node, criteria)
    /\ outcome' = did.out
    /\ trace' = [evaluated |-> did.evaluated, logs |-> did.logs]
    /\ rules' = rulesAfter(rules)
    /\ first' = IF first.made
                THEN [first EXCEPT !.repeated = @ \/ Call(op, node, criteria) = first.call]
                ELSE [made |-> TRUE, call |-> Call(op, node, criteria), rules |-> rules,
                      outcome |-> did.out,
                      trace |-> [evaluated |-> did.evaluated, logs |-> did.logs],
                      repeated |-> FALSE]

SessionEvaluatorEvaluate ==
    /\ pc = "idle"
    /\ \E rule \in SessionRules, criteria \in SessionCriteria :
          LET r == evaluate(rules, rule, criteria)
          IN  SessionEnds("evaluate", rule, criteria,
                          Did(Outcome(r), TRUE, InvalidNodeLog(r)))

SessionValidate ==
    /\ pc = "idle"
    /\ \E rule \in SessionRules :
          SessionEnds("validate", rule, Undef, engineValidateStrict(rules, rule))

SessionValidatePermissive ==
    /\ pc = "idle"
    /\ \E rule \in SessionRules :
          SessionEnds("validate (permissive)", rule, Undef,
                      engineValidatePermissive(rules, rule))

SessionEvaluateStrict ==
    /\ pc = "idle"
    /\ \E rule \in SessionRules, criteria \in SessionCriteria :
          SessionEnds("evaluate (strict)", rule, criteria,
                      engineEvaluateStrict(rules, rule, criteria))

SessionEvaluatePermissive ==
    /\ pc = "idle"
    /\ \E rule \in SessionRules, criteria \in SessionCriteria :
          SessionEnds("evaluate (permissive)", rule, criteria,
                      engineEvaluatePermissive(rules, rule, criteria))

SessionNext ==
    \/ SessionEvaluatorEvaluate
    \/ SessionValidate
    \/ SessionValidatePermissive
    \/ SessionEvaluateStrict
    \/ SessionEvaluatePermissive
    \/ Returns

SessionSpec == Init /\ [][SessionNext]_vars

---------------------------------------------------------------------------
(* Claims *)

Done(op) == pc = "done" /\ call.op = op

True == Return(Bool(TRUE))
False == Return(Bool(FALSE))

ExactlyOneBranch(node) ==
    Cardinality({key \in {K_any, K_all, K_none} : HasKey(node, key)}) = 1

BranchOf(node) ==
    IF HasKey(node, K_any) THEN Get(node, K_any)
    ELSE IF HasKey(node, K_all) THEN Get(node, K_all)
    ELSE Get(node, K_none)

\* The conditions C1 speaks of: one of any/all/none over a sequence whose
\* members are constraints or, recursively, such conditions.
RECURSIVE IsFold(_)
IsFold(node) ==
    IF isConstraint(node) /\ ~isCondition(node) THEN TRUE
    ELSE /\ isCondition(node)
         /\ ExactlyOneBranch(node)
         /\ BranchOf(node).k = "arr"
         /\ \A i \in 1..Len(BranchOf(node).items) : IsFold(BranchOf(node).items[i])

\* Satisfaction as the specification defines it: a constraint is satisfied
\* when _checkConstraint returns true of it; all, any and none quantify over
\* the children.
RECURSIVE Satisfied(_, _)
Satisfied(node, criteria) ==
    IF isCondition(node)
    THEN LET items == BranchOf(node).items
         IN  IF HasKey(node, K_all) THEN \A i \in 1..Len(items) : Satisfied(items[i], criteria)
             ELSE IF HasKey(node, K_any) THEN \E i \in 1..Len(items) : Satisfied(items[i], criteria)
             ELSE \A i \in 1..Len(items) : ~Satisfied(items[i], criteria)
    ELSE _checkConstraint(node, criteria) = True

\* No constraint of the tree raises an error on the criteria.
RECURSIVE ChecksReturn(_, _)
ChecksReturn(node, criteria) ==
    IF isCondition(node)
    THEN \A i \in 1..Len(BranchOf(node).items) :
            ChecksReturn(BranchOf(node).items[i], criteria)
    ELSE _checkConstraint(node, criteria).t = "return"

\* C1: whenever _evaluateCondition returns on a condition made of
\* constraints and nested conditions only, it returns true iff every child
\* is satisfied (all), at least one is (any), none is (none), recursively;
\* and it does return when no constraint check raises an error.
C1_FoldSemantics ==
    (Done("_evaluateCondition") /\ IsFold(call.node))
        => /\ outcome.t = "return"
                => outcome.v = Bool(Satisfied(call.node, call.criteria))
           /\ ChecksReturn(call.node, call.criteria) => outcome.t = "return"

C1_Witness ==
    /\ Done("_evaluateCondition")
    /\ IsFold(call.node)
    /\ HasKey(call.node, K_none)
    /\ Len(BranchOf(call.node).items) = 2
    /\ isCondition(BranchOf(call.node).items[1])
    /\ isConstraint(BranchOf(call.node).items[2])
    /\ outcome = True

\* C2: on a field that resolves to undefined, _checkConstraint returns false
\* for every operator except that 'does not exist' returns true ('exists'
\* returns false).
C2_AbsentField ==
    (Done("_checkConstraint") /\ criterionOf(call.node, call.criteria) = Return(Undef))
        => outcome = Return(Bool(Get(call.node, K_operator) = Str(OP_does_not_exist)))

\* x is an element of the sequence: one of its members is the same value.
\* An array or object of the criteria is never the same object as one of
\* the rule.
Member(x, items) == IsPrimitive(x) /\ \E i \in 1..Len(items) : items[i] = x

\* C10: for a present criterion and sequence operands, in / not in test the
\* criterion's membership in the value, contains / not contains the value's
\* membership in the criterion, contains any / not contains any whether some
\* element of the value is a member of the criterion.
C10_SetOperators ==
    Done("_checkConstraint") =>
        LET criterion == criterionOf(call.node, call.criteria)
            operator == Get(call.node, K_operator)
            value == Get(call.node, K_value)
            c == criterion.v
        IN  (criterion.t = "return" /\ c # Undef) =>
              /\ (operator = Str(OP_in) /\ value.k = "arr")
                    => outcome = Return(Bool(Member(c, value.items)))
              /\ (operator = Str(OP_not_in) /\ value.k = "arr")
                    => outcome = Return(Bool(~Member(c, value.items)))
              /\ (operator = Str(OP_contains) /\ c.k = "arr")
                    => outcome = Return(Bool(Member(value, c.items)))
              /\ (operator = Str(OP_not_contains) /\ c.k = "arr")
                    => outcome = Return(Bool(~Member(value, c.items)))
              /\ (operator = Str(OP_contains_any) /\ value.k = "arr" /\ c.k = "arr")
                    => outcome = Return(Bool(\E i \in 1..Len(value.items) :
                                                Member(value.items[i], c.items)))
              /\ (operator = Str(OP_not_contains_any) /\ value.k = "arr" /\ c.k = "arr")
                    => outcome = Return(Bool(~\E i \in 1..Len(value.items) :
                                                 Member(value.items[i], c.items)))

C10_Witness ==
    /\ Done("_checkConstraint")
    /\ Get(call.node, K_operator) = Str(OP_contains_any)
    /\ Get(call.node, K_value) = Arr(<<S_a, S_b>>)
    /\ criterionOf(call.node, call.criteria) = Return(Arr(<<S_x, S_b>>))
    /\ outcome = True

StrictEvaluate == "evaluate (strict)"
PermissiveEvaluate == "evaluate (permissive)"

EngineEvaluateEnded == pc = "done" /\ call.op \in {StrictEvaluate, PermissiveEvaluate}

\* What validation answers on the rule of an engine call: the Validator's
\* result, an error it raised, or the error of resolving the rule.
ValidationOf(op, rule) ==
    IF op = StrictEvaluate THEN validate(rules, rule)
    ELSE engineValidatePermissive(rules, rule).out

\* What the Evaluator alone makes of the call's rule and criteria.
Unvalidated(rule, criteria) == Outcome(evaluate(rules, rule, criteria))

\* C3: the engine's evaluate validates first. On a rule validation finds
\* invalid the Evaluator is not invoked and the call ends in the error 'Rule
\* is not valid' (strict) or in false with that message logged (permissive),
\* never in true; an error of validation ends the call; only a valid rule
\* reaches the Evaluator.
C3_ValidatesFirst ==
    EngineEvaluateEnded =>
        LET verdict == ValidationOf(call.op, call.node)
        IN  /\ (verdict.t = "return" /\ ~verdict.v.isValid)
                  => /\ ~trace.evaluated
                     /\ outcome # True
                     /\ call.op = StrictEvaluate => outcome = Throw("Rule is not valid")
                     /\ call.op = PermissiveEvaluate
                           => outcome = False /\ "Rule is not valid" \in trace.logs
            /\ verdict.t = "throw" => (~trace.evaluated /\ outcome = verdict)
            /\ (verdict.t = "return" /\ verdict.v.isValid) => trace.evaluated

C3_Witness ==
    /\ Done(StrictEvaluate)
    /\ call.node = Rule(TwoKeys)
    /\ validate(rules, call.node).v.isValid = FALSE
    /\ Unvalidated(call.node, call.criteria) = True
    /\ outcome = Throw("Rule is not valid")
    /\ ~trace.evaluated

\* The outcome of evaluating one top-level condition on the criteria.
TopOutcome(condition, criteria) ==
    Outcome(_evaluateCondition(rules, condition, criteria, 1))

\* C4: on one criteria record, Evaluator.evaluate returns for the first
\* satisfied top-level condition (all before it unsatisfied) that
\* condition's result when it is a boolean and true otherwise, whatever the
\* later conditions are; with no top-level condition satisfied it returns
\* false.
C4_FirstSatisfiedWins ==
    (Done("evaluate") /\ call.criteria.k = "obj" /\ call.node.k = "obj") =>
        LET conditions == conditionsOf(call.node)
            given(i) == Get(conditions[i], K_result)
        IN  /\ \A i \in 1..Len(conditions) :
                  ( /\ TopOutcome(conditions[i], call.criteria) = True
                    /\ \A j \in 1..(i - 1) :
                          TopOutcome(conditions[j], call.criteria) = False )
                  => outcome = Return(IF given(i) \in {Bool(TRUE), Bool(FALSE)}
                                      THEN given(i) ELSE Bool(TRUE))
            /\ (\A i \in 1..Len(conditions) :
                    TopOutcome(conditions[i], call.criteria) = False)
                  => outcome = False

C4_Witness ==
    /\ Done("evaluate")
    /\ call.criteria = Criteria1
    /\ conditionsOf(call.node)
          = <<WithResult(Condition("all", <<A_is_1>>), Bool(FALSE)), Str(T_r1)>>
    /\ TopOutcome(Str(T_r1), call.criteria).t = "throw"
    /\ outcome = False

\* A none condition and nothing else, over a sequence of children.
NoneOver(node) ==
    /\ isObject(node)
    /\ DOMAIN node.o = {K_none}
    /\ Get(node, K_none).k = "arr"

\* The same children under another condition type.
Retyped(node, type) ==
    Outcome(_evaluateCondition(rules, Condition(type, Get(node, K_none).items),
                               call.criteria, 1))

\* The i-th child, once a reference is resolved, is neither a condition nor
\* a constraint.
Unusable(child) ==
    LET got == resolve(rules, child)
    IN  got.t = "return" /\ ~isCondition(got.v) /\ ~isConstraint(got.v)

C8_Elementwise ==
    (Done("evaluate") /\ call.criteria.k = "arr" /\ call.node.k = "obj") =>
        LET records == call.criteria.items
            failing == {i \in 1..Len(records) :
                          Unvalidated(call.node, records[i]).t = "throw"}
        IN  IF failing = {}
            THEN outcome = Return(Arr([i \in 1..Len(records) |->
                                         Unvalidated(call.node, records[i]).v]))
            ELSE \E i \in failing :
                    /\ \A j \in failing : i <= j
                    /\ outcome = Unvalidated(call.node, records[i])

C8_Witness ==
    /\ Done("evaluate")
    /\ call.criteria = Arr(<<Criteria1, Criteria2>>)
    /\ Unvalidated(call.node, Criteria1) = True
    /\ Unvalidated(call.node, Criteria2) = False
    /\ outcome = Return(Arr(<<Bool(TRUE), Bool(FALSE)>>))

BranchKeys == {K_any, K_all, K_none}

\* The nodes of a condition tree as written: the node, and the nodes of the
\* sequences under its any, all and none.
RECURSIVE TreeNodes(_)
TreeNodes(node) ==
    IF ~isObject(node) THEN {node}
    ELSE {node} \cup UNION { UNION {TreeNodes(Get(node, key).items[i]) :
                                      i \in 1..Len(Get(node, key).items)} :
                             key \in {b \in BranchKeys :
                                        HasKey(node, b) /\ Get(node, b).k = "arr"} }

RuleNodes(rule) ==
    IF isObject(rule) /\ HasKey(rule, K_conditions)
    THEN UNION {TreeNodes(conditionsOf(rule)[i]) : i \in 1..Len(conditionsOf(rule))}
    ELSE {}

\* A string node naming no stored rule.
Unknown(node) == node.k = "str" /\ findRule(rules, node.s) = Return(Undef)

\* A condition carrying two or more of any, all, none.
ManyKeys(node) ==
    isObject(node) /\ Cardinality({b \in BranchKeys : HasKey(node, b)}) >= 2

\* The node at the given depth has no defect, but for those the lenience
\* names: "reference" lets unknown references pass, "keys" conditions with
\* more than one branch, "result" nested conditions with a result; inside
\* the tree of a referenced rule ("stored") no further reference passes.
RECURSIVE Sound(_, _, _)
Sound(node, depth, lenient) ==
    IF node.k = "str"
    THEN IF Unknown(node) THEN lenient = {"reference"}
         ELSE /\ "stored" \notin lenient
              /\ findRule(rules, node.s).v.conditions.parses
              /\ Sound(findRule(rules, node.s).v.conditions.tree, depth,
                       lenient \cup {"stored"})
    ELSE IF isCondition(node)
    THEN IF ManyKeys(node) THEN lenient = {"keys"}
         ELSE /\ BranchOf(node).k = "arr"
              /\ depth = 0 \/ ~HasKey(node, K_result) \/ "result" \in lenient
              /\ \A i \in 1..Len(BranchOf(node).items) :
                    Sound(BranchOf(node).items[i], depth + 1, lenient)
    ELSE /\ depth > 0
         /\ isConstraint(node)
         /\ Get(node, K_field).k = "str"
         /\ Get(node, K_operator).k = "str"
         /\ \E i \in 1..Len(operators) : operators[i] = Get(node, K_operator).s
         /\ Get(node, K_operator).s \in {OP_in, OP_not_in, OP_contains_any,
                                        OP_not_contains_any}
               => Get(node, K_value).k = "arr"
         /\ Get(node, K_operator).s \in {OP_matches, OP_does_not_match}
               => RegExpCompiles(RegExpSource(Get(node, K_value)))

SoundRule(rule, lenient) ==
    /\ isObject(rule)
    /\ HasKey(rule, K_conditions)
    /\ conditionsOf(rule) # <<>>
    /\ \A i \in 1..Len(conditionsOf(rule)) : Sound(conditionsOf(rule)[i], 0, lenient)

LookupError == Throw("Invalid rule reference")

\* C5 as stated: a rule with an unknown reference anywhere in its condition
\* tree makes the engine's evaluate end in the lookup error.
C5_LookupErrorAnywhere ==
    (EngineEvaluateEnded /\ \E node \in RuleNodes(call.node) : Unknown(node))
        => outcome = LookupError

\* C5, amended: on a rule with an unknown reference in its condition tree
\* the engine's evaluate never invokes the Evaluator and never returns true;
\* it ends in the lookup error when the unknown references are the rule's
\* only defect, and otherwise in that error, in another error of validation,
\* in 'Rule is not valid' (strict) or in false (permissive).
C5_UnknownReference ==
    (EngineEvaluateEnded /\ \E node \in RuleNodes(call.node) : Unknown(node)) =>
        /\ ~trace.evaluated
        /\ outcome.t = "throw" \/ (call.op = PermissiveEvaluate /\ outcome = False)
        /\ SoundRule(call.node, {"reference"}) => outcome = LookupError
        /\ outcome.t = "return" => "Rule is not valid" \in trace.logs

C5_Witness ==
    /\ Done(StrictEvaluate)
    /\ call.node = Rule(Condition("any", <<A_is_1, Condition("all", <<Str(T_zz)>>)>>))
    /\ rules = MainStore
    /\ SoundRule(call.node, {"reference"})
    /\ Unvalidated(call.node, call.criteria) = True
    /\ outcome = LookupError

MoreThanOne ==
    "A condition cannot have more than one \"any\", \"all\", or \"none\" property."

\* C6 as stated: a rule with a condition carrying two or more of any, all,
\* none makes validate return the 'more than one' error with that condition
\* as element.
C6_MoreThanOneAnywhere ==
    Done("validate") =>
        \A node \in RuleNodes(call.node) :
            ManyKeys(node) => outcome = Return(Invalid(MoreThanOne, node))

\* C6, amended: on a rule with a condition carrying two or more of any, all,
\* none, validate never returns isValid = true; when such conditions are the
\* rule's only defect it returns the 'more than one' error with one of them
\* as element, which isCondition accepts.
C6_MoreThanOne ==
    (Done("validate") /\ \E node \in RuleNodes(call.node) : ManyKeys(node)) =>
        /\ outcome.t = "return" => ~outcome.v.isValid
        /\ SoundRule(call.node, {"keys"}) =>
              /\ outcome.t = "return"
              /\ ~outcome.v.isValid
              /\ outcome.v.error.message = MoreThanOne
              /\ outcome.v.error.element \in RuleNodes(call.node)
              /\ ManyKeys(outcome.v.error.element)
              /\ isCondition(outcome.v.error.element)

C6_Witness ==
    /\ Done("validate")
    /\ call.node = Rule(Condition("all", <<A_is_1, Condition("any", <<N_gt_1, TwoKeys>>)>>))
    /\ SoundRule(call.node, {"keys"})
    /\ outcome = Return(Invalid(MoreThanOne, TwoKeys))

NestedNodes(rule) ==
    IF isObject(rule) /\ HasKey(rule, K_conditions)
    THEN UNION {TreeNodes(top) \ {top} :
                  top \in {conditionsOf(rule)[i] : i \in 1..Len(conditionsOf(rule))}}
    ELSE {}

\* A condition with a result key, or a reference to a stored rule whose root
\* condition has one.
CarriesResult(node) ==
    IF node.k = "str"
    THEN /\ ~Unknown(node)
         /\ findRule(rules, node.s).v.conditions.parses
         /\ isCondition(findRule(rules, node.s).v.conditions.tree)
         /\ HasKey(findRule(rules, node.s).v.conditions.tree, K_result)
    ELSE isCondition(node) /\ HasKey(node, K_result)

NestedResult == "Nested conditions cannot have a property \"result\"."

\* C11: a rule with a condition below the top level that carries a result
\* key, and no other defect, makes validate return isValid = false with the
\* 'Nested conditions cannot have a property "result"' error, whatever the
\* condition's branch holds, an empty branch included.
C11_NestedResultRejected ==
    ( /\ Done("validate")
      /\ SoundRule(call.node, {"result"})
      /\ \E node \in NestedNodes(call.node) : CarriesResult(node) )
        => /\ outcome.t = "return"
           /\ ~outcome.v.isValid
           /\ outcome.v.error.message = NestedResult

\* The rule reaches the loop over its top-level conditions.
ReachesConditions(rule) ==
    /\ isObject(rule)
    /\ Len(conditionsOf(rule)) > 0
    /\ ~(isObject(conditionsOf(rule)[1]) /\ DOMAIN conditionsOf(rule)[1].o = {})

\* The result of each top-level condition on its own.
PerCondition(rule) ==
    [i \in 1..Len(conditionsOf(rule)) |->
        _validateCondition(rules, conditionsOf(rule)[i], 0)]

FirstFailing(per) ==
    CHOOSE i \in 1..Len(per) :
        /\ ~per[i].v.isValid
        /\ \A j \in 1..(i - 1) : per[j].v.isValid

\* C12: when validate returns for a rule with top-level conditions, isValid
\* is the conjunction of the results of all of them and the error is that of
\* the first failing one in sequence order, whatever follows it.
C12_EveryTopLevelCondition ==
    (Done("validate") /\ ReachesConditions(call.node) /\ outcome.t = "return")
        => LET per == PerCondition(call.node)
           IN  /\ \A i \in 1..Len(per) : per[i].t = "return"
               /\ outcome.v.isValid = (\A i \in 1..Len(per) : per[i].v.isValid)
               /\ outcome.v.error =
                    IF \A i \in 1..Len(per) : per[i].v.isValid THEN Undef
                    ELSE per[FirstFailing(per)].v.error

\* Two failing top-level conditions with different errors: the first one's
\* error is returned.
C12_Witness ==
    /\ Done("validate")
    /\ call.node = Rule(Arr(<<Condition("all", <<BadField>>), TwoKeys>>))
    /\ outcome.t = "return"
    /\ ~outcome.v.isValid
    /\ outcome.v.error.element = BadField
    /\ ~PerCondition(call.node)[2].v.isValid
    /\ PerCondition(call.node)[2].v.error # outcome.v.error

EachNode == "Each node should be a condition or constraint."

\* What validating one child of a branch gives on its own, the child's
\* condition being at the given depth.
ChildResult(node, depth) ==
    Bind(resolve(rules, node), LAMBDA got :
        IF got.t = "throw" THEN got
        ELSE IF isCondition(got.v) THEN _validateCondition(rules, got.v, depth)
        ELSE IF isConstraint(got.v) THEN Return(_validateConstraint(got.v))
        ELSE Return(Invalid(EachNode, got.v)))

Fails(r) == r.t = "throw" \/ ~r.v.isValid

\* A condition written in place whose children are validated.
Loops(node) ==
    /\ node.k = "obj"
    /\ isCondition(node)
    /\ _isValidCondition(node).isValid
    /\ BranchOf(node).k = "arr"

\* The first failing child of the condition, 0 when there is none.
FirstFailingChild(node, depth) ==
    LET kids == BranchOf(node).items
        failing == {i \in 1..Len(kids) : Fails(ChildResult(kids[i], depth))}
    IN  IF failing = {} THEN 0
        ELSE CHOOSE i \in failing : \A j \in failing : i <= j

\* validate has ended on a rule of one top-level condition written in place
\* whose first failing child is again such a condition with a failing child.
FailsBelow ==
    /\ Done("validate")
    /\ ReachesConditions(call.node)
    /\ Len(conditionsOf(call.node)) = 1
    /\ Loops(conditionsOf(call.node)[1])
    /\ FirstFailingChild(conditionsOf(call.node)[1], 1) > 0
    /\ LET top == conditionsOf(call.node)[1]
           inner == BranchOf(top).items[FirstFailingChild(top, 1)]
       IN  Loops(inner) /\ FirstFailingChild(inner, 2) > 0

InnerOf(rule) ==
    LET top == conditionsOf(rule)[1]
    IN  BranchOf(top).items[FirstFailingChild(top, 1)]

OperatorKinds ==
    { OP_equals, OP_does_not_equal, OP_greater_than, OP_less_than,
      OP_greater_than_or_equal, OP_less_than_or_equal, OP_exists,
      OP_does_not_exist, OP_in, OP_not_in, OP_contains, OP_not_contains,
      OP_contains_any, OP_not_contains_any, OP_matches, OP_does_not_match }

BadFieldMessage == "Constraint \"field\" must be of type string."
BadOperatorMessage == "Constraint \"operator\" has invalid type."
BadValueMessage == "Constraint \"value\" must be an array if the \"operator\" is in [\"in\", \"not in\", \"contains any\", \"not contains any\"]"
BadPatternMessage == "Constraint \"value\" must be a valid regular expression if the \"operator\" is in [\"matches\", \"not matches\"]"

IsOperator(constraint, kinds) ==
    /\ Get(constraint, K_operator).k = "str"
    /\ Get(constraint, K_operator).s \in kinds

\* The defects C14 names, in its order; the empty string when there is none.
Defect(constraint) ==
    IF Get(constraint, K_field).k # "str" THEN BadFieldMessage
    ELSE IF ~IsOperator(constraint, OperatorKinds) THEN BadOperatorMessage
    ELSE IF /\ IsOperator(constraint, {OP_in, OP_not_in, OP_contains_any,
                                       OP_not_contains_any})
            /\ Get(constraint, K_value).k # "arr"
    THEN BadValueMessage
    ELSE IF /\ IsOperator(constraint, {OP_matches, OP_does_not_match})
            /\ ~RegExpCompiles(RegExpSource(Get(constraint, K_value)))
    THEN BadPatternMessage
    ELSE ""

\* The constraints written in the rule's tree.
RuleConstraints(rule) ==
    {node \in RuleNodes(rule) : isConstraint(node) /\ ~isCondition(node)}

\* The rule is one condition over one constraint.
OneConstraint(rule) ==
    /\ isObject(rule)
    /\ Len(conditionsOf(rule)) = 1
    /\ Loops(conditionsOf(rule)[1])
    /\ ~HasKey(conditionsOf(rule)[1], K_result)
    /\ Len(BranchOf(conditionsOf(rule)[1]).items) = 1
    /\ BranchOf(conditionsOf(rule)[1]).items[1] \in Constraints

\* C14: when validate returns, a constraint in the rule's tree whose field is
\* not a string, whose operator is not one of the sixteen, whose value is not
\* a sequence under a set operator or not a pattern under a match operator
\* makes the rule invalid; a rule of one condition over one constraint is
\* rejected with that constraint's defect, and accepted when it has none.
C14_ConstraintChecks ==
    (Done("validate") /\ outcome.t = "return")
        => /\ (\E constraint \in RuleConstraints(call.node) : Defect(constraint) # "")
                => ~outcome.v.isValid
           /\ OneConstraint(call.node)
                => LET constraint == BranchOf(conditionsOf(call.node)[1]).items[1]
                   IN  outcome.v = IF Defect(constraint) = "" THEN Valid
                                   ELSE Invalid(Defect(constraint), constraint)

\* A set operator over a value that is no sequence is rejected with the
\* constraint as the offending element.
C14_Witness ==
    /\ Done("validate")
    /\ call.node = Rule(Condition("any", <<Constraint(Str(F_tags), Str(OP_contains_any), S_a)>>))
    /\ outcome = Return(Invalid(BadValueMessage,
                                Constraint(Str(F_tags), Str(OP_contains_any), S_a)))

\* The nodes of the rule's tree, with the trees of the stored rules its
\* references name.
SubstitutedNodes(rule) ==
    RuleNodes(rule)
        \cup UNION {TreeNodes(findRule(rules, node.s).v.conditions.tree) :
                      node \in {n \in RuleNodes(rule) :
                                  /\ n.k = "str"
                                  /\ ~Unknown(n)
                                  /\ findRule(rules, n.s).v.conditions.parses}}

EmptyBranch(node) ==
    /\ isObject(node)
    /\ \E key \in BranchKeys :
          /\ HasKey(node, key)
          /\ Get(node, key).k = "arr"
          /\ Len(Get(node, key).items) = 0

\* C15: a rule that validate accepts has no empty any/all/none sequence in
\* its tree, nested conditions and substituted rules included.
C15_NoEmptyBranch ==
    (Done("validate") /\ outcome.t = "return" /\ outcome.v.isValid)
        => \A node \in SubstitutedNodes(call.node) : ~EmptyBranch(node)

\* The node, or the rule's tree, names the stored rule that refers to itself.
MentionsCycle(node) == Str(T_cy) \in (TreeNodes(node) \cup RuleNodes(node))

\* The first child of the top-level condition that is not valid on its own
\* account is the reference to the rule that refers to itself.
ReachesCycle(rule) ==
    /\ ReachesConditions(rule)
    /\ Len(conditionsOf(rule)) = 1
    /\ Loops(conditionsOf(rule)[1])
    /\ ~Unknown(Str(T_cy))
    /\ LET kids == BranchOf(conditionsOf(rule)[1]).items
       IN  \E i \in 1..Len(kids) :
              /\ kids[i] = Str(T_cy)
              /\ \A j \in 1..(i - 1) :
                    kids[j] # Str(T_cy) /\ ChildResult(kids[j], 1) = Return(Valid)

\* C16: validation that reaches a reference to a rule referring back to
\* itself, everything before it being valid, never returns a
\* ValidationResult: it recurses until the stack is exhausted; validation and
\* evaluation of a rule that names no such rule never exhaust the stack.
C16_NoCycleGuard ==
    /\ (Done("validate") /\ ReachesCycle(call.node))
          => outcome = Throw("RangeError")
    /\ (pc = "done" /\ ~MentionsCycle(call.node))
          => outcome # Throw("RangeError")

C16_Witness ==
    /\ Done("validate")
    /\ call.node = Rule(Condition("all", <<A_is_1, Str(T_cy)>>))
    /\ ~Unknown(Str(T_cy))
    /\ outcome = Throw("RangeError")

\* The value reached after the first k segments, read as record?.s1?.s2...
RECURSIVE ValueAt(_, _, _)
ValueAt(segments, k, record) ==
    IF k = 0 THEN record
    ELSE LET prev == ValueAt(segments, k - 1, record)
         IN  IF prev.k \in {"undef", "null"} THEN Undef
             ELSE Get(prev, segments[k])

Absent(v) == v.k \in {"undef", "null"}

\* C17: resolveNestedProperty raises no error; it returns undefined when a
\* value on the way (the record, or the value at a proper prefix of the path)
\* is absent, and otherwise the value stored at the full path.
C17_WalksPath ==
    Done("resolveNestedProperty")
        => LET segments == Split(call.node.s, <<>>)
               n == Len(segments)
           IN  outcome =
                 Return(IF \E k \in 0..(n - 1) : Absent(ValueAt(segments, k, call.criteria))
                        THEN Undef
                        ELSE ValueAt(segments, n, call.criteria))

InvalidNode == "Invalid node type in condition"

\* C18: a call of the engine's evaluate on a rule that validation accepts
\* invokes the Evaluator, and the Evaluator never logs 'Invalid node type in
\* condition': every child it visits is a condition or a constraint.
C18_NoInvalidNode ==
    ( /\ EngineEvaluateEnded
      /\ ValidationOf(call.op, call.node).t = "return"
      /\ ValidationOf(call.op, call.node).v.isValid )
        => /\ trace.evaluated
           /\ InvalidNode \notin trace.logs

\* A validated rule with a constraint and a reference among its children is
\* evaluated without the log, while the Evaluator alone logs it on a rule
\* with a number among its children.
C18_Witness ==
    /\ Done(StrictEvaluate)
    /\ call.node = Rule(Condition("all", <<A_is_1, Str(T_r1)>>))
    /\ call.criteria = Criteria1
    /\ validate(rules, call.node) = Return(Valid)
    /\ trace.evaluated
    /\ outcome = True
    /\ InvalidNode \notin trace.logs
    /\ evaluate(rules, Rule(Condition("all", <<A_is_1, Num(5)>>)), Criteria1).log

\* Every top-level condition of the rule is written in place.
WrittenInPlace(rule) ==
    /\ isObject(rule)
    /\ \A i \in 1..Len(conditionsOf(rule)) : conditionsOf(rule)[i].k = "obj"

\* C19: on a rule that validation accepts, with its top-level conditions
\* written in place, and one criteria record, the Evaluator returns a boolean
\* and raises no error, whatever the criterion values are.
C19_ValidatedNeverThrows ==
    ( /\ EngineEvaluateEnded
      /\ trace.evaluated
      /\ WrittenInPlace(call.node)
      /\ call.criteria.k = "obj" )
        => outcome \in {True, False}

\* The rule with each top-level string reference replaced by the condition
\* tree of the stored rule it names.
Substituted(rule) ==
    Rule(Arr([i \in 1..Len(conditionsOf(rule)) |->
                IF conditionsOf(rule)[i].k = "str"
                THEN findRule(rules, conditionsOf(rule)[i].s).v.conditions.tree
                ELSE conditionsOf(rule)[i]]))

\* C20: a rule that validation accepts and whose top-level conditions hold a
\* string reference is evaluated to what the Evaluator gives for the rule
\* with the referenced condition tree in the reference's place.
C20_TopLevelReference ==
    ( /\ Done(StrictEvaluate)
      /\ trace.evaluated
      /\ isObject(call.node)
      /\ \E i \in 1..Len(conditionsOf(call.node)) : conditionsOf(call.node)[i].k = "str" )
        => outcome = Unvalidated(Substituted(call.node), call.criteria)

====
